---------------------------- MODULE Spec2Model ----------------------------
(***************************************************************************)
(* A model of qrcode_scanner (src/src/lib.rs, src/src/image_decode.rs):    *)
(* the frame size negotiation choose_framesize, the construction of a      *)
(* QRScanStream (with_framesize, with_test_images, with_test_results) and  *)
(* its one operation decode_next.                                          *)
(*                                                                         *)
(* u32 values are kept at their width.  TLC's integers stop at 2^31 - 1,   *)
(* so a u32 is a little-endian pair of 16-bit limbs <<lo, hi>> and the     *)
(* arithmetic of choose_framesize is carried out on limbs, with the        *)
(* overflow of every operation known.                                      *)
(***************************************************************************)
EXTENDS Naturals, Sequences, FiniteSets

VARIABLES
    overflow_checks,  \* the build: TRUE panics on u32 overflow, FALSE wraps
    formats,          \* choose_framesize: the candidate list handed in
    target,           \* choose_framesize: the TargetFrameSize handed in
    outcome,          \* choose_framesize: what the call produced
    state,            \* QRScanStream.state: the State enum with its fields
    created,          \* what the constructor returned
    trace,            \* the backend calls of with_framesize, in call order
    applied,          \* the v4l::Format set_format reported back
    given,            \* the queue the test constructor was handed
    calls,            \* the number of decode_next calls made
    ret,              \* what the last decode_next call returned
    last              \* how far the last decode_next call got

chooseVars == <<formats, target, outcome>>
sessionVars == <<state, created, trace, applied, given, calls, ret, last>>
vars == <<overflow_checks, formats, target, outcome, state, created, trace,
          applied, given, calls, ret, last>>

---------------------------------------------------------------------------
(* Natural numbers as little-endian sequences of 16-bit limbs.             *)

Base == 256 * 256

\* the u32 of a number below 2^31
U32(n) == <<n % Base, n \div Base>>

U32_MAX == <<Base - 1, Base - 1>>

RECURSIVE NatLt(_, _)
\* a < b, for limb sequences of the same length
NatLt(a, b) ==
    IF a = <<>> THEN FALSE
    ELSE LET n == Len(a) IN
         IF a[n] # b[n] THEN a[n] < b[n]
         ELSE NatLt(SubSeq(a, 1, n - 1), SubSeq(b, 1, n - 1))

RECURSIVE NatAddC(_, _, _)
\* a + b + carry, one limb longer than a and b (of the same length)
NatAddC(a, b, c) ==
    IF a = <<>> THEN <<c>>
    ELSE LET s == Head(a) + Head(b) + c
         IN  <<s % Base>> \o NatAddC(Tail(a), Tail(b), s \div Base)

RECURSIVE NatSubB(_, _, _)
\* a - b - borrow, for a >= b of the same length
NatSubB(a, b, br) ==
    IF a = <<>> THEN <<>>
    ELSE LET d == Head(a) + Base - Head(b) - br
         IN  <<d % Base>> \o NatSubB(Tail(a), Tail(b), 1 - (d \div Base))

RECURSIVE NatPad(_, _)
NatPad(a, n) == IF Len(a) >= n THEN a ELSE NatPad(a \o <<0>>, n)

\* the 32-bit product of two 16-bit limbs, as <<lo, hi>>
Mul16(a, b) ==
    LET p0 == (a % 256) * b
        p1 == (a \div 256) * b
        lo == (p1 % 256) * 256 + (p0 % Base)
    IN  <<lo % Base, (p1 \div 256) + (p0 \div Base) + (lo \div Base)>>

\* the 64-bit product of two u32, as four limbs
NatMul(a, b) ==
    LET ll == Mul16(a[1], b[1])
        lh == Mul16(a[1], b[2])
        hl == Mul16(a[2], b[1])
        hh == Mul16(a[2], b[2])
        s1 == ll[2] + lh[1] + hl[1]
        s2 == lh[2] + hl[2] + hh[1] + (s1 \div Base)
    IN  <<ll[1], s1 % Base, s2 % Base, hh[2] + (s2 \div Base)>>

\* a number of any length cut to u32, and whether the cut lost anything
Wrapped(n) == SubSeq(n, 1, 2)
Overflows(n) == \E i \in 3..Len(n) : n[i] # 0

U32Lt(a, b) == NatLt(a, b)

\* u32::abs_diff
abs_diff(a, b) == IF NatLt(a, b) THEN NatSubB(b, a, 0) ELSE NatSubB(a, b, 0)

\* u32 `*` and `+`: the wrapped value and whether the operation overflowed
U32Mul(a, b) ==
    LET p == NatMul(a, b) IN [val |-> Wrapped(p), overflow |-> Overflows(p)]

U32Add(a, b) ==
    LET s == NatAddC(a, b, 0) IN [val |-> Wrapped(s), overflow |-> Overflows(s)]

---------------------------------------------------------------------------
(* choose_framesize (src/src/lib.rs 66-100).                               *)

\* the pixel format codes of lib.rs 113 and of the unit test (lib.rs 385-387)
FourCCs == {"YUYV", "MJPG", "AAAD", "BBBE", "CCCF"}

Discrete(w, h) == [typ |-> "Discrete", width |-> w, height |-> h]

Stepwise(minw, maxw, stepw, minh, maxh, steph) ==
    [typ |-> "Stepwise",
     min_width |-> minw, max_width |-> maxw, step_width |-> stepw,
     min_height |-> minh, max_height |-> maxh, step_height |-> steph]

TargetFrameSize(w, h) == [width |-> w, height |-> h]

RECURSIVE StepRange(_, _, _)
\* (cur..=max).step_by(step): the iteration ends at max or where cur + step
\* leaves u32
StepRange(cur, max, step) ==
    IF NatLt(max, cur) THEN <<>>
    ELSE LET n == U32Add(cur, step)
         IN  <<cur>> \o (IF n.overflow THEN <<>> ELSE StepRange(n.val, max, step))

RECURSIVE StepGrid(_, _)
\* every width paired with every height, the width varying slowest
StepGrid(ws, hs) ==
    IF ws = <<>> THEN <<>>
    ELSE [i \in 1..Len(hs) |-> Discrete(Head(ws), hs[i])] \o StepGrid(Tail(ws), hs)

\* FrameSizeEnum::to_discrete (v4l) as choose_framesize uses it: a discrete
\* size is itself, a stepwise range is expanded
to_discrete(size) ==
    IF size.typ = "Discrete" THEN <<Discrete(size.width, size.height)>>
    ELSE StepGrid(StepRange(size.min_width, size.max_width, size.step_width),
                  StepRange(size.min_height, size.max_height, size.step_height))

\* diff_h * diff_h + diff_w * diff_w + diff_h * diff_w in u32
this_diff(diff_h, diff_w) ==
    LET hh == U32Mul(diff_h, diff_h)
        ww == U32Mul(diff_w, diff_w)
        s1 == U32Add(hh.val, ww.val)
        hw == U32Mul(diff_h, diff_w)
        s2 == U32Add(s1.val, hw.val)
    IN  [val |-> s2.val,
         overflow |-> hh.overflow \/ ww.overflow \/ s1.overflow
                        \/ hw.overflow \/ s2.overflow]

\* let use_size = this_diff < diff
use_size(cost, diff) == U32Lt(cost, diff)

\* let mut width = 0; height = 0; diff = u32::MAX; fourcc = "0000"
ChooseStart ==
    [width |-> U32(0), height |-> U32(0), diff |-> U32_MAX,
     fourcc |-> "0000", panicked |-> FALSE]

RECURSIVE ForDiscrete(_, _, _, _)
\* for discrete in framesize.size.to_discrete() { ... }
ForDiscrete(ds, cur_fourcc, tgt, best) ==
    IF ds = <<>> \/ best.panicked THEN best
    ELSE LET discrete == Head(ds)
             diff_h == abs_diff(tgt.height, discrete.height)
             diff_w == abs_diff(tgt.width, discrete.width)
             cost == this_diff(diff_h, diff_w)
         IN  IF overflow_checks /\ cost.overflow
             THEN [best EXCEPT !.panicked = TRUE]
             ELSE ForDiscrete(Tail(ds), cur_fourcc, tgt,
                     IF use_size(cost.val, best.diff)
                     THEN [best EXCEPT !.width = discrete.width,
                                       !.height = discrete.height,
                                       !.diff = cost.val,
                                       !.fourcc = cur_fourcc]
                     ELSE best)

Reverse(s) == [i \in 1..Len(s) |-> s[Len(s) + 1 - i]]

RECURSIVE WhilePop(_, _, _)
\* while let Some((cur_fourcc, framesize)) = formats.pop() { ... }
WhilePop(stack, tgt, best) ==
    IF stack = <<>> \/ best.panicked THEN best
    ELSE LET top == stack[Len(stack)]
         IN  WhilePop(SubSeq(stack, 1, Len(stack) - 1), tgt,
                      ForDiscrete(to_discrete(top[2]), top[1], tgt, best))

\* the order in which the loop takes the entries: formats.reverse(), then pop
PopOrder(fs) == Reverse(fs)

\* a Result: Ok(v), Err(e) with e the io::ErrorKind, a panic of the call, or
\* no call yet
Ok(v) == [kind |-> "Ok", val |-> v, err |-> "none"]
Err(e) == [kind |-> "Err", val |-> <<>>, err |-> e]
Panic == [kind |-> "Panic", val |-> <<>>, err |-> "overflow"]
NotCalled == [kind |-> "NotCalled", val |-> <<>>, err |-> "none"]

choose_framesize(fs, tgt) ==
    LET best == WhilePop(PopOrder(fs), tgt, ChooseStart)
    IN  IF best.panicked THEN Panic
        ELSE IF best.diff = U32_MAX THEN Err("InvalidInput")
        ELSE Ok(<<best.fourcc, best.width, best.height>>)

---------------------------------------------------------------------------
(* The session before any constructor ran.                                 *)

NoSession == [variant |-> "None"]

\* how far a decode_next call got: where it ended, the converter and the
\* sizes it converted with, the memory the converter read (its owner and its
\* bytes), the backend buffer the call took (0: none) and what the reader
\* answered
Call(path, conv, dims, src, frame, results) ==
    [path |-> path, conv |-> conv, dims |-> dims, src |-> src,
     frame |-> frame, results |-> results]

\* no memory handed to a converter
NoBytes == [owner |-> "none", data |-> <<>>]

NoCall == Call("none", "none", <<>>, NoBytes, 0, NotCalled)

NoSessionYet ==
    /\ state = NoSession
    /\ created = NotCalled
    /\ trace = <<>>
    /\ applied = NotCalled
    /\ given = <<>>
    /\ calls = 0
    /\ ret = NotCalled
    /\ last = NoCall

---------------------------------------------------------------------------
(* The inputs choose_framesize is exercised on.                            *)

MaxFormats == 3

\* the sizes of the unit test (lib.rs 389-394), a pair at the same distance
\* from 640x480, and sizes far enough from the targets for the cost to leave
\* u32
Sizes ==
    <<Discrete(U32(640), U32(80)), Discrete(U32(480), U32(200)),
      Discrete(U32(580), U32(400)), Discrete(U32(700), U32(560)),
      Discrete(U32(640 + 65536), U32(480)),
      Discrete(U32(1), U32(833855397)),
      Stepwise(U32(560), U32(720), U32(80), U32(400), U32(480), U32(80))>>

Entries ==
    {<<"AAAD", Sizes[1]>>, <<"BBBE", Sizes[1]>>, <<"BBBE", Sizes[2]>>,
     <<"AAAD", Sizes[3]>>, <<"BBBE", Sizes[4]>>, <<"AAAD", Sizes[5]>>,
     <<"BBBE", Sizes[6]>>, <<"CCCF", Sizes[7]>>}

Targets == {TargetFrameSize(U32(640), U32(480)), TargetFrameSize(U32(0), U32(0))}

SeqsUpTo(S, n) == UNION {[1..k -> S] : k \in 0..n}

InitChoose ==
    /\ overflow_checks \in BOOLEAN
    /\ formats \in SeqsUpTo(Entries, MaxFormats)
    /\ target \in Targets
    /\ outcome = NotCalled
    /\ NoSessionYet

\* one call of choose_framesize(formats, target)
ChooseFramesize ==
    /\ outcome.kind = "NotCalled"
    /\ outcome' = choose_framesize(formats, target)
    /\ UNCHANGED <<overflow_checks, formats, target>>
    /\ UNCHANGED sessionVars

NextChoose == ChooseFramesize

SpecChoose == InitChoose /\ [][NextChoose]_vars

---------------------------------------------------------------------------
(* Properties of choose_framesize, stated over the candidates of a list in *)
(* enumeration order and the cost as a number of any size.                 *)

RECURSIVE Candidates(_)
\* every (format, width, height) of the list, stepwise ranges expanded, in
\* the order supplied
Candidates(fs) ==
    IF fs = <<>> THEN <<>>
    ELSE LET ds == to_discrete(Head(fs)[2])
         IN  [i \in 1..Len(ds) |-> <<Head(fs)[1], ds[i].width, ds[i].height>>]
                \o Candidates(Tail(fs))

\* diff_h^2 + diff_w^2 + diff_h*diff_w of candidate c, not cut to u32
Cost(c, tgt) ==
    LET diff_w == abs_diff(tgt.width, c[2])
        diff_h == abs_diff(tgt.height, c[3])
        hh_ww == NatAddC(NatMul(diff_h, diff_h), NatMul(diff_w, diff_w), 0)
    IN  NatAddC(hh_ww, NatPad(NatMul(diff_h, diff_w), 5), 0)

IsMinimal(c, cs, tgt) ==
    \A j \in 1..Len(cs) : ~NatLt(Cost(cs[j], tgt), Cost(c, tgt))

\* the first candidate of the least cost (cs is not empty)
FirstMinimal(cs, tgt) ==
    LET i == CHOOSE k \in 1..Len(cs) :
                /\ IsMinimal(cs[k], cs, tgt)
                /\ \A j \in 1..(k - 1) : ~IsMinimal(cs[j], cs, tgt)
    IN  cs[i]

HasTie(cs, tgt) ==
    \E i, j \in 1..Len(cs) :
        i < j /\ IsMinimal(cs[i], cs, tgt) /\ IsMinimal(cs[j], cs, tgt)

Range(s) == {s[i] : i \in 1..Len(s)}

\* C3: after a call of choose_framesize, the result is one of the candidates
\* of the list when the list has any, and the InvalidInput error when it has
\* none.
C3_ReturnsMember ==
    outcome.kind # "NotCalled" =>
        IF Candidates(formats) = <<>>
        THEN outcome.kind = "Err" /\ outcome.err = "InvalidInput"
        ELSE outcome.kind = "Ok" /\ outcome.val \in Range(Candidates(formats))

\* C4: a candidate that choose_framesize returns has the least cost
\* diff_h^2 + diff_w^2 + diff_h*diff_w of all candidates of the list.
C4_ReturnsMinimalCost ==
    outcome.kind = "Ok" =>
        IsMinimal(outcome.val, Candidates(formats), target)

\* C5: when two or more candidates have the least cost, choose_framesize
\* returns the first of them in enumeration order, with its own format.
C5_FirstOfTiedWins ==
    (outcome.kind # "NotCalled" /\ HasTie(Candidates(formats), target)) =>
        /\ outcome.kind = "Ok"
        /\ outcome.val = FirstMinimal(Candidates(formats), target)

DiffW(c, tgt) == abs_diff(tgt.width, c[2])
DiffH(c, tgt) == abs_diff(tgt.height, c[3])

\* the cost choose_framesize computes for candidate c, in u32
Computed(c, tgt) == this_diff(DiffH(c, tgt), DiffW(c, tgt))

\* candidate a is at least as near to the target as b in width and in height,
\* and nearer in one of them
Nearer(a, b, tgt) ==
    /\ ~NatLt(DiffW(b, tgt), DiffW(a, tgt))
    /\ ~NatLt(DiffH(b, tgt), DiffH(a, tgt))
    /\ (DiffW(a, tgt) # DiffW(b, tgt) \/ DiffH(a, tgt) # DiffH(b, tgt))

\* C14: for two candidates A and B of the list with diff_w(A) <= diff_w(B)
\* and diff_h(A) <= diff_h(B), not both equal, the cost computed for A in u32
\* is at most the cost computed for B, and the size returned is not B's.
C14_CostMonotone ==
    outcome.kind # "NotCalled" =>
        LET cs == Candidates(formats)
        IN  \A i, j \in 1..Len(cs) :
                Nearer(cs[i], cs[j], target) =>
                    /\ \/ overflow_checks /\ Computed(cs[i], target).overflow
                       \/ overflow_checks /\ Computed(cs[j], target).overflow
                       \/ ~U32Lt(Computed(cs[j], target).val,
                                 Computed(cs[i], target).val)
                    /\ outcome.kind = "Ok" =>
                          <<outcome.val[2], outcome.val[3]>>
                              # <<cs[j][2], cs[j][3]>>

\* candidate c is at least as wide and as high as the target
AtLeast(c, tgt) == ~NatLt(c[2], tgt.width) /\ ~NatLt(c[3], tgt.height)

\* size c is no wider and no higher than size r, and not r
Smaller(c, r) ==
    /\ ~NatLt(r[2], c[2])
    /\ ~NatLt(r[3], c[3])
    /\ <<c[2], c[3]>> # <<r[2], r[3]>>

\* no cost of the list leaves u32
CostsFit(cs, tgt) == \A i \in 1..Len(cs) : ~Computed(cs[i], tgt).overflow

\* C17: when the list has a candidate at least as wide and as high as the
\* target, choose_framesize returns such a candidate, and no other such
\* candidate is smaller than the one returned.  Stated for the lists whose
\* costs all fit u32, where the cost is computed as written.
C17_SmallestAtLeastTarget ==
    LET cs == Candidates(formats)
        big == {i \in 1..Len(cs) : AtLeast(cs[i], target)}
    IN  (outcome.kind # "NotCalled" /\ CostsFit(cs, target) /\ big # {}) =>
            /\ outcome.kind = "Ok"
            /\ AtLeast(outcome.val, target)
            /\ \A i \in big : ~Smaller(cs[i], outcome.val)

---------------------------------------------------------------------------
(* The collaborators of a session: the pixel converters                    *)
(* (src/src/image_decode.rs) and the barcode reader.                       *)

\* a raw buffer, as far as its bytes matter to a session: whether
\* ImageView::<Yuyv<u8>>::from_buf takes it for the width and height it is
\* converted with, and whether the image codec can decode it
RawData(yuyv, jpeg) == [yuyv |-> yuyv, jpeg |-> jpeg]

\* image_decode_error(): io::ErrorKind::InvalidInput
image_decode_error == Err("InvalidInput")

\* ImageView::<Yuyv<u8>>::from_buf(src, width, height) is Some(view): the
\* answer of the ffimage crate for this buffer and these sizes
from_buf(src, width, height) == src.yuyv

\* yuv422_to_image: the RGB image of width x height when from_buf takes the
\* buffer, image_decode_error() when it answers None
yuv422_to_image(src, width, height) ==
    IF from_buf(src, width, height) THEN Ok("RgbImage") ELSE image_decode_error

\* guess_image: what the codec decodes, image_decode_error() when it rejects
\* the buffer; width and height are not used
guess_image(src, width, height) ==
    IF src.jpeg THEN Ok("DynamicImage") ELSE image_decode_error

\* a mapping that hands every other format code to the image codec
converter_for_fourcc_else_codec(fourcc) ==
    IF fourcc = "YUYV" THEN Ok("yuv422_to_image") ELSE Ok("guess_image")

\* converter_for_fourcc: the ConverterFunction of a format code
converter_for_fourcc(fourcc) ==
    IF fourcc = "YUYV" THEN Ok("yuv422_to_image")
    ELSE IF fourcc = "MJPG" THEN Ok("guess_image")
    ELSE Err("InvalidInput")

\* (converter)(src, width, height)
CallConverter(converter, src, width, height) ==
    IF converter = "yuv422_to_image" THEN yuv422_to_image(src, width, height)
    ELSE guess_image(src, width, height)

\* what decode_multiple_with_hints can answer for an image:
\* Result<Vec<RXingResult>, Exceptions>
RXingResult(text) == [text |-> text]
getText(r) == r.text

DecoderResults ==
    {Ok(<<>>), Ok(<<RXingResult("A")>>), Ok(<<RXingResult("B"), RXingResult("A")>>),
     Err("NotFoundException"), Err("FormatException")}

\* decoded_results_to_vec: the texts of the results in their order, nothing
\* when the reader answered with an Exceptions value
decoded_results_to_vec(results) ==
    IF results.kind = "Ok"
    THEN [i \in 1..Len(results.val) |-> getText(results.val[i])]
    ELSE <<>>

\* empty_test_error(): io::ErrorKind::NotFound
empty_test_error == Err("NotFound")

---------------------------------------------------------------------------
(* The State enum and the three constructors.                              *)

\* a session that keeps the sizes of the default target with the format code
State_V4l_default_size(stream, format, converter) ==
    [variant |-> "V4l", stream |-> stream,
     format |-> [format EXCEPT !.width = U32(640), !.height = U32(480)],
     converter |-> converter]

State_V4l(stream, format, converter) ==
    [variant |-> "V4l", stream |-> stream, format |-> format,
     converter |-> converter]

State_TestImages(input_data) ==
    [variant |-> "TestImages", input_data |-> input_data]

State_TestResults(results) ==
    [variant |-> "TestResults", results |-> results]

MaxQueue == 3
MaxCalls == 5

\* the entries a test results queue is made of
QueuedResults ==
    {Ok(<<>>), Ok(<<"test1", "test2">>), Ok(<<"test3">>), Err("InvalidInput")}

\* the entries a test images queue is made of: (fourcc, width, height, data)
QueuedImages ==
    {<<"YUYV", U32(2), U32(1), RawData(TRUE, FALSE)>>,
     <<"YUYV", U32(2), U32(1), RawData(FALSE, FALSE)>>,
     <<"MJPG", U32(640), U32(480), RawData(FALSE, TRUE)>>,
     <<"MJPG", U32(640), U32(480), RawData(FALSE, FALSE)>>,
     <<"RGB3", U32(2), U32(1), RawData(FALSE, FALSE)>>}

FreshSession ==
    /\ state = NoSession
    /\ created.kind = "NotCalled"
    /\ outcome.kind = "NotCalled"

\* with_test_results(data)
with_test_results(data) ==
    /\ FreshSession
    /\ state' = State_TestResults(data)
    /\ created' = Ok("QRScanStream")
    /\ given' = data
    /\ UNCHANGED <<overflow_checks, formats, target, outcome, trace, applied,
                   calls, ret, last>>

\* with_test_images(data)
with_test_images(data) ==
    /\ FreshSession
    /\ state' = State_TestImages(data)
    /\ created' = Ok("QRScanStream")
    /\ given' = data
    /\ UNCHANGED <<overflow_checks, formats, target, outcome, trace, applied,
                   calls, ret, last>>

---------------------------------------------------------------------------
(* The capture backend as with_framesize meets it.  dev says how the       *)
(* device behaves: the call that fails (if any), the frame sizes it        *)
(* enumerates per format, and the format set_format reports as applied.    *)

Format(fourcc, width, height) ==
    [fourcc |-> fourcc, width |-> width, height |-> height]

\* dev.set_format(&format): the format the device reports as applied
set_format(dev, format) ==
    Format(IF dev.set_fourcc = "asked" THEN format.fourcc ELSE dev.set_fourcc,
           IF dev.keep_size THEN format.width ELSE U32(160),
           IF dev.keep_size THEN format.height ELSE U32(120))

\* formats.push((fourcc, framesize)) for every size enumerated for fourcc
Pushed(fourcc, sizes) == [i \in 1..Len(sizes) |-> <<fourcc, sizes[i]>>]

\* what a constructor step hands on: its result, the backend calls so far,
\* the formats list built, what choose_framesize answered and what
\* set_format reported
Step(result, tr, fs, chosen, app) ==
    [result |-> result, trace |-> tr, formats |-> fs, chosen |-> chosen,
     applied |-> app]

\* a check that accepts every format code a converter exists for
FormatHonored_if_mapped(format, fourcc) == format.fourcc \in {"YUYV", "MJPG"}

\* no check at all
FormatHonored_unchecked(format, fourcc) == TRUE

\* the check of lib.rs 128: the applied format code is the chosen one
FormatHonored(format, fourcc) == format.fourcc = fourcc

\* the one element of a set of one: The({e(x) : x \in {v}}) is e with x
\* bound to the value v
The(S) == CHOOSE x \in S : TRUE

\* lib.rs 121-134: dev.format()?, dev.set_format(&format)? and the check of
\* the format code, for the (fourcc, width, height) chosen
SetChosen(dev, tr, fs, chosen) ==
    LET t3 == tr \o <<"format">>
        t4 == t3 \o <<"set_format">>
        fourcc == chosen.val[1]
    IN  IF dev.fail = "format"
        THEN Step(Err("Os"), t3, fs, chosen, NotCalled)
        ELSE IF dev.fail = "set_format"
        THEN Step(Err("Os"), t4, fs, chosen, NotCalled)
        ELSE The({IF ~FormatHonored(format, fourcc)
                  THEN Step(Err("InvalidInput"), t4, fs, chosen, Ok(format))
                  ELSE Step(Ok(format), t4, fs, chosen, Ok(format)) :
                  format \in {set_format(dev, Format(fourcc, chosen.val[2],
                                                     chosen.val[3]))}})

\* choose_and_set_format(&dev, target)
choose_and_set_format(dev, tgt) ==
    LET t1 == <<"enum_framesizes">>
        t2 == t1 \o <<"enum_framesizes">>
        fy == Pushed("YUYV", dev.sizes[1])
        fs == fy \o Pushed("MJPG", dev.sizes[2])
    IN  IF dev.fail = "enum_framesizes_YUYV"
        THEN Step(Err("Os"), t1, <<>>, NotCalled, NotCalled)
        ELSE IF dev.fail = "enum_framesizes_MJPG"
        THEN Step(Err("Os"), t2, fy, NotCalled, NotCalled)
        ELSE The({IF chosen.kind # "Ok"
                  THEN Step(chosen, t2, fs, chosen, NotCalled)
                  ELSE SetChosen(dev, t2, fs, chosen) :
                  chosen \in {choose_framesize(fs, tgt)}})

\* let buffer_count = 3
buffer_count == 3

\* MmapStream::with_buffers: a stream that has delivered no buffer yet
MmapStream == [buffers |-> buffer_count, delivered |-> 0]

\* a capture that takes two buffers from the backend
stream_next_two(stream) == [stream EXCEPT !.delivered = @ + 2]

\* stream.next() succeeding: one more buffer delivered
stream_next(stream) == [stream EXCEPT !.delivered = @ + 1]

\* lib.rs 196-213: the stream, the warm-up capture and the converter, for the
\* format choose_and_set_format returned
OpenStream(dev, set) ==
    LET t5 == <<"with_path">> \o set.trace \o <<"with_buffers">>
        t6 == t5 \o <<"next">>
        t7 == t6 \o <<"converter_for_fourcc">>
        format == set.result.val
        conv == converter_for_fourcc(format.fourcc)
        Failed(r, tr) == [state |-> NoSession, created |-> r, trace |-> tr,
                          formats |-> set.formats, chosen |-> set.chosen,
                          applied |-> set.applied]
    IN  IF dev.fail = "with_buffers" THEN Failed(Err("Os"), t5)
        ELSE IF dev.fail = "next" THEN Failed(Err("Os"), t6)
        ELSE IF conv.kind # "Ok" THEN Failed(conv, t7)
        ELSE [state |-> State_V4l(stream_next(MmapStream), format, conv.val),
              created |-> Ok("QRScanStream"), trace |-> t7,
              formats |-> set.formats, chosen |-> set.chosen,
              applied |-> set.applied]

\* with_framesize(path, target): the session (if any), the value returned and
\* the backend calls made
with_framesize(dev, tgt) ==
    IF dev.fail = "with_path"
    THEN [state |-> NoSession, created |-> Err("Os"),
          trace |-> <<"with_path">>, formats |-> <<>>,
          chosen |-> NotCalled, applied |-> NotCalled]
    ELSE The({IF set.result.kind # "Ok"
              THEN [state |-> NoSession, created |-> set.result,
                    trace |-> <<"with_path">> \o set.trace,
                    formats |-> set.formats, chosen |-> set.chosen,
                    applied |-> set.applied]
              ELSE OpenStream(dev, set) :
              set \in {choose_and_set_format(dev, tgt)}})

\* the frame sizes a device enumerates for one format
SizeLists ==
    {<<>>, <<Discrete(U32(640), U32(480))>>,
     <<Discrete(U32(320), U32(240)), Discrete(U32(640), U32(480))>>,
     <<Discrete(U32(640 + 65536), U32(480))>>}

Devices ==
    [fail : {"none", "with_path", "enum_framesizes_YUYV", "enum_framesizes_MJPG",
             "format", "set_format", "with_buffers", "next"},
     sizes : SizeLists \X SizeLists,
     set_fourcc : {"asked", "YUYV", "MJPG", "RGB3"},
     keep_size : BOOLEAN]

\* QRScanStream::new(path): the target of lib.rs 167-170
DefaultTarget == TargetFrameSize(U32(640), U32(480))

LiveTargets == {DefaultTarget, TargetFrameSize(U32(320), U32(240))}

\* QRScanStream::with_framesize(path, target) on a device that behaves as dev
WithFramesize(dev, tgt) ==
    /\ FreshSession
    /\ \E r \in {with_framesize(dev, tgt)} :
           /\ state' = r.state
           /\ created' = r.created
           /\ trace' = r.trace
           /\ formats' = r.formats
           /\ outcome' = r.chosen
           /\ applied' = r.applied
    /\ target' = tgt
    /\ UNCHANGED <<overflow_checks, given, calls, ret, last>>

---------------------------------------------------------------------------
(* decode_next (lib.rs 311-356).                                           *)

\* a pop that takes the back entry
pop_back(q) == [item |-> q[Len(q)], rest |-> SubSeq(q, 1, Len(q) - 1)]

\* a pop that reads the front entry and leaves it in the queue
peek_front(q) == [item |-> Head(q), rest |-> q]

\* a pop that takes the front entry and drops the rest of the queue
pop_front_all(q) == [item |-> Head(q), rest |-> <<>>]

\* VecDeque::pop_front on a queue that is not empty
pop_front(q) == [item |-> Head(q), rest |-> Tail(q)]

\* the bytes stream.next() can deliver
CaptureBuffers ==
    {RawData(TRUE, FALSE), RawData(FALSE, TRUE), RawData(FALSE, FALSE)}

\* a Vec<u8> of the caller's own
Owned(bytes) == [owner |-> "decode_next", data |-> bytes]

\* the slice stream.next() returns: memory of the stream's buffers, which the
\* backend fills again later
Borrowed(bytes) == [owner |-> "stream", data |-> bytes]

\* a to_vec that hands the slice on as it is
to_vec_borrowed(buf) == buf

\* buf.to_vec(): the bytes of the slice in a Vec<u8> of the call's own
to_vec(buf) == Owned(buf.data)

\* a decoding that hands the reader's error on to the caller
Decoded_or_error(results) ==
    IF results.kind = "Err" THEN Err("InvalidInput")
    ELSE Ok(decoded_results_to_vec(results))

\* Ok(decoded_results_to_vec(results)), lib.rs 349-355
Decoded(results) == Ok(decoded_results_to_vec(results))

\* a capture that also takes the format out of the session
Captured_format_taken(st) ==
    [st EXCEPT !.stream = stream_next(@),
               !.format = Format("0000", U32(0), U32(0))]

\* a capture after which the stream starts over
Captured_stream_reset(st) == [st EXCEPT !.stream = MmapStream]

\* the V4l arm after stream.next() succeeded: of the fields borrowed from
\* self.state only the stream changed
Captured(st) == [st EXCEPT !.stream = stream_next(@)]

\* the TestResults arm: the front entry as it is, or empty_test_error()
decode_next_TestResults ==
    /\ state.variant = "TestResults"
    /\ IF state.results = <<>>
       THEN /\ ret' = empty_test_error
            /\ state' = state
            /\ last' = Call("exhausted", "none", <<>>, NoBytes, 0, NotCalled)
       ELSE LET p == pop_front(state.results)
            IN  /\ ret' = p.item
                /\ state' = [state EXCEPT !.results = p.rest]
                /\ last' = Call("queue", "none", <<>>, NoBytes, 0, NotCalled)

\* the V4l arm and the decoding that follows it
decode_next_V4l ==
    /\ state.variant = "V4l"
    /\ \/ \* stream.next()? fails with an error of the backend
          /\ ret' = Err("Os")
          /\ state' = state
          /\ last' = Call("capture", "none", <<>>, NoBytes, 0, NotCalled)
       \/ \E bytes \in CaptureBuffers :
              LET buf == Borrowed(bytes)
                  buf_vec == to_vec(buf)
                  stream == stream_next(state.stream)
                  dims == <<state.format.width, state.format.height>>
                  img == CallConverter(state.converter, buf_vec.data,
                                       state.format.width, state.format.height)
              IN  /\ state' = Captured(state)
                  /\ IF img.kind = "Err"
                     THEN /\ ret' = img
                          /\ last' = Call("conversion", state.converter, dims,
                                          buf_vec, stream.delivered, NotCalled)
                     ELSE \E results \in DecoderResults :
                            /\ ret' = Decoded(results)
                            /\ last' = Call("decoded", state.converter, dims,
                                            buf_vec, stream.delivered, results)

\* the TestImages arm and the decoding that follows it
decode_next_TestImages ==
    /\ state.variant = "TestImages"
    /\ IF state.input_data = <<>>
       THEN /\ ret' = empty_test_error
            /\ state' = state
            /\ last' = Call("exhausted", "none", <<>>, NoBytes, 0, NotCalled)
       ELSE LET p == pop_front(state.input_data)
                data == p.item
                conv == converter_for_fourcc(data[1])
                dims == <<data[2], data[3]>>
                src == Owned(data[4])
                img == CallConverter(conv.val, src.data, data[2], data[3])
            IN  /\ state' = [state EXCEPT !.input_data = p.rest]
                /\ IF conv.kind = "Err"
                   THEN /\ ret' = conv
                        /\ last' = Call("converter", "none", <<>>, NoBytes, 0, NotCalled)
                   ELSE IF img.kind = "Err"
                   THEN /\ ret' = img
                        /\ last' = Call("conversion", conv.val, dims, src, 0,
                                        NotCalled)
                   ELSE \E results \in DecoderResults :
                          /\ ret' = Decoded(results)
                          /\ last' = Call("decoded", conv.val, dims, src, 0, results)

\* one call of decode_next
decode_next ==
    /\ calls < MaxCalls
    /\ calls' = calls + 1
    /\ \/ decode_next_TestResults
       \/ decode_next_V4l
       \/ decode_next_TestImages
    /\ UNCHANGED <<overflow_checks, formats, target, outcome, created, trace,
                   applied, given>>

---------------------------------------------------------------------------
(* The session: one constructor, then decode_next again and again.         *)

Init ==
    /\ overflow_checks \in BOOLEAN
    /\ formats = <<>>
    /\ target = DefaultTarget
    /\ outcome = NotCalled
    /\ NoSessionYet

Next ==
    \/ \E data \in SeqsUpTo(QueuedResults, MaxQueue) : with_test_results(data)
    \/ \E data \in SeqsUpTo(QueuedImages, MaxQueue) : with_test_images(data)
    \/ \E dev \in Devices, tgt \in LiveTargets : WithFramesize(dev, tgt)
    \/ decode_next

Spec == Init /\ [][Next]_vars

---------------------------------------------------------------------------
(* Properties of a session.                                                *)

IsNotFound(r) == r.kind = "Err" /\ r.err = "NotFound"

\* C1: in a session made by with_test_results, the i-th decode_next call
\* returns the i-th entry of the queue as it was queued, an Err entry
\* included, and every call after the last entry returns the NotFound error.
C1_TestResultsReplayed ==
    (state.variant = "TestResults" /\ calls > 0) =>
        IF calls <= Len(given) THEN ret = given[calls] ELSE IsNotFound(ret)

\* a queue with an Err in the middle, and the call after it returned the
\* entry that follows
C1_Witness ==
    /\ state.variant = "TestResults"
    /\ Len(given) = 3 /\ given[2].kind = "Err"
    /\ calls = 3 /\ ret = Ok(<<"test3">>)

\* C2: in a session made by with_test_images from N entries, every
\* decode_next call after the N-th returns the NotFound error and leaves the
\* queue empty.
C2_TestImagesExhausted ==
    (state.variant = "TestImages" /\ calls > Len(given)) =>
        IsNotFound(ret) /\ state.input_data = <<>> /\ last.path = "exhausted"

\* the second call after the last of two entries
C2_Witness ==
    /\ state.variant = "TestImages"
    /\ Len(given) = 2 /\ calls = Len(given) + 2
    /\ IsNotFound(ret)

\* C7: in a V4l or TestImages session decode_next returns an error only when
\* the capture, the converter selection, the conversion or the queue failed;
\* once an image was obtained the call returns Ok whatever the reader
\* answered, and Ok of the empty list when the reader found nothing or
\* answered with an error.
C7_ErrorsOnlyBeforeDecoding ==
    (state.variant \in {"V4l", "TestImages"} /\ calls > 0) =>
        /\ ret.kind \in {"Ok", "Err"}
        /\ ret.kind = "Err" =>
              last.path \in {"capture", "converter", "conversion", "exhausted"}
        /\ last.path = "decoded" => ret.kind = "Ok"
        /\ (last.path = "decoded"
              /\ (last.results.kind = "Err" \/ last.results.val = <<>>)) =>
              ret.kind = "Ok" /\ ret.val = <<>>

\* a captured frame the reader answered with an error for
C7_Witness ==
    /\ state.variant = "V4l"
    /\ last.path = "decoded" /\ last.results.kind = "Err"
    /\ ret.kind = "Ok" /\ ret.val = <<>>

\* C8: when set_format reports a format code other than the chosen one, the
\* construction fails with InvalidInput, with no stream opened and no capture
\* made; a V4l session holds the chosen format code, which is YUYV or MJPG.
C8_FormatNotHonored ==
    /\ (applied.kind = "Ok" /\ applied.val.fourcc # outcome.val[1]) =>
          /\ created.kind = "Err" /\ created.err = "InvalidInput"
          /\ state.variant = "None"
          /\ "with_buffers" \notin Range(trace)
          /\ "next" \notin Range(trace)
    /\ state.variant = "V4l" =>
          /\ outcome.kind = "Ok"
          /\ state.format.fourcc = outcome.val[1]
          /\ state.format.fourcc \in {"YUYV", "MJPG"}

\* YUYV was chosen and the device reports MJPG
C8_Witness ==
    /\ outcome.kind = "Ok" /\ outcome.val[1] = "YUYV"
    /\ applied.kind = "Ok" /\ applied.val.fourcc = "MJPG"
    /\ created.kind = "Err" /\ created.err = "InvalidInput"
    /\ "with_buffers" \notin Range(trace)

Before(a, b) ==
    \A i \in 1..Len(trace) :
        trace[i] = b => \E j \in 1..(i - 1) : trace[j] = a

\* C9 as claimed: in every construction the converter is bound for the
\* negotiated format before the first call of the backend's next().
C9_ConverterBoundBeforeCapture == Before("converter_for_fourcc", "next")

HasConverter(fourcc) == converter_for_fourcc(fourcc).kind = "Ok"

\* C9 as amended: the warm-up capture comes before the converter is bound;
\* a format without a converter never reaches a capture, because the
\* construction fails with InvalidInput before the stream is opened; and the
\* binding, once reached, succeeds.
C9_UnmappedRejectedBeforeCapture ==
    /\ Before("next", "converter_for_fourcc")
    /\ "next" \in Range(trace) =>
          applied.kind = "Ok" /\ HasConverter(applied.val.fourcc)
    /\ (applied.kind = "Ok" /\ ~HasConverter(applied.val.fourcc)) =>
          /\ created.kind = "Err" /\ created.err = "InvalidInput"
          /\ "with_buffers" \notin Range(trace)
          /\ "next" \notin Range(trace)
    /\ "converter_for_fourcc" \in Range(trace) => created.kind = "Ok"

\* the device reports a format no converter exists for
C9_Witness ==
    /\ applied.kind = "Ok" /\ applied.val.fourcc = "RGB3"
    /\ created.kind = "Err" /\ created.err = "InvalidInput"
    /\ "next" \notin Range(trace)

\* C10: no decode_next call changes the variant of the session, and in a V4l
\* session the format and the converter stay the ones of the construction.
C10_VariantAndFormatFixed ==
    /\ [](state.variant = "V4l" =>
            /\ state.format = applied.val
            /\ Ok(state.converter) = converter_for_fourcc(applied.val.fourcc))
    /\ [][state.variant # "None" =>
            /\ state'.variant = state.variant
            /\ state.variant = "V4l" =>
                  /\ state'.format = state.format
                  /\ state'.converter = state.converter]_vars

\* a V4l session after a call that failed and a call that decoded
C10_Witness ==
    /\ state.variant = "V4l"
    /\ calls >= 2 /\ state.stream.delivered >= 3
    /\ last.path = "conversion"

---------------------------------------------------------------------------
(* Properties of successive decode_next calls.                             *)

\* how far decode_next gets with the test image entry data
EntryPath(data) ==
    LET conv == converter_for_fourcc(data[1])
    IN  IF conv.kind = "Err" THEN "converter"
        ELSE IF CallConverter(conv.val, data[4], data[2], data[3]).kind = "Err"
        THEN "conversion"
        ELSE "decoded"

\* the last decode_next call failed in the capture or in the conversion
FailedCall ==
    /\ calls > 0
    /\ ret.kind = "Err"
    /\ last.path \in {"capture", "conversion"}

\* the last decode_next call handed memory to a converter
Processed == last.path \in {"conversion", "decoded"}

\* C11: a decode_next call that failed in the capture or in the conversion
\* leaves a session on which decode_next can be called again; the next call
\* keeps the variant, takes the next entry of the queue (TestImages) or makes
\* the next capture (V4l), and what it returns is decided by that entry or
\* buffer alone.
C11_FailureFatalToOneCall ==
    /\ []((FailedCall /\ calls < MaxCalls) => ENABLED decode_next)
    /\ [][(FailedCall /\ calls' = calls + 1) =>
            /\ state'.variant = state.variant
            /\ state.variant = "TestImages" =>
                  IF state.input_data = <<>>
                  THEN IsNotFound(ret') /\ state' = state
                  ELSE /\ state'.input_data = Tail(state.input_data)
                       /\ last'.path = EntryPath(Head(state.input_data))
                       /\ last'.path # "converter" =>
                             last'.src.data = Head(state.input_data)[4]
                       /\ IF last'.path = "decoded"
                          THEN ret' = Ok(decoded_results_to_vec(last'.results))
                          ELSE ret' = Err("InvalidInput")
            /\ state.variant = "V4l" =>
                  \/ /\ last'.path = "capture"
                     /\ ret'.kind = "Err"
                     /\ state' = state
                  \/ /\ state'.stream.delivered = state.stream.delivered + 1
                     /\ last'.frame = state'.stream.delivered
                     /\ last'.conv = state.converter
                     /\ last'.path =
                           (IF CallConverter(state.converter, last'.src.data,
                                             state.format.width,
                                             state.format.height).kind = "Err"
                            THEN "conversion" ELSE "decoded")
                     /\ IF last'.path = "decoded"
                        THEN ret' = Ok(decoded_results_to_vec(last'.results))
                        ELSE ret' = Err("InvalidInput")]_vars

\* the entry after one that failed in the conversion was decoded
C11_Witness ==
    /\ state.variant = "TestImages"
    /\ Len(given) >= 2 /\ calls = 2
    /\ EntryPath(given[1]) = "conversion"
    /\ last.path = "decoded" /\ ret = Ok(<<"A">>)

Count(s, x) == Cardinality({i \in 1..Len(s) : s[i] = x})

\* C12 as claimed: one warm-up capture in the construction, one capture in
\* every decode_next call, so that the k-th call processes the (k+1)-th
\* buffer the backend delivered.
C12_KthCallTakesNextBuffer ==
    state.variant = "V4l" =>
        /\ Count(trace, "next") = 1
        /\ state.stream.delivered = calls + 1
        /\ Processed => last.frame = calls + 1

\* C12 as amended: the construction makes one capture, whose buffer no
\* converter and no reader sees; every decode_next call makes one capture
\* and, when it succeeds, processes the buffer just delivered and no other;
\* a capture that fails delivers no buffer, so the k-th call processes buffer
\* k+1 less the number of captures that failed before it.
C12_OneCapturePerCall ==
    /\ [](state.variant = "V4l" =>
            /\ Count(trace, "next") = 1
            /\ calls = 0 => state.stream.delivered = 1 /\ last = NoCall
            /\ state.stream.delivered >= 1
            /\ state.stream.delivered <= calls + 1
            /\ Processed =>
                  /\ last.frame = state.stream.delivered
                  /\ last.frame >= 2
            /\ (Processed /\ state.stream.delivered = calls + 1) =>
                  last.frame = calls + 1)
    /\ [][(state.variant = "V4l" /\ calls' = calls + 1) =>
            state'.stream.delivered =
                IF last'.path = "capture" THEN state.stream.delivered
                ELSE state.stream.delivered + 1]_vars

\* the third call decoded the third buffer: one capture before it failed
C12_Witness ==
    /\ state.variant = "V4l"
    /\ calls = 3 /\ state.stream.delivered = 3
    /\ last.path = "decoded" /\ last.frame = 3

\* C15: YUYV selects yuv422_to_image, MJPG selects guess_image and every
\* other format code fails with InvalidInput; in a TestImages session the
\* i-th decode_next call resolves the converter from the format code of the
\* i-th entry and calls it with that entry's bytes, width and height,
\* whatever the entries before it were; a V4l session holds the converter of
\* its own format code.
C15_ConverterByEntry ==
    /\ (state.variant = "TestImages" /\ calls > 0 /\ calls <= Len(given)) =>
          LET entry == given[calls]
          IN  IF entry[1] \in {"YUYV", "MJPG"}
              THEN /\ last.conv = (IF entry[1] = "YUYV" THEN "yuv422_to_image"
                                   ELSE "guess_image")
                   /\ last.dims = <<entry[2], entry[3]>>
                   /\ last.src.data = entry[4]
              ELSE /\ last.path = "converter"
                   /\ last.conv = "none"
                   /\ ret = Err("InvalidInput")
    /\ state.variant = "V4l" =>
          state.converter = (IF state.format.fourcc = "YUYV"
                             THEN "yuv422_to_image" ELSE "guess_image")

\* an MJPG entry of 640x480 after a YUYV entry of 2x1
C15_Witness ==
    /\ state.variant = "TestImages"
    /\ calls = 2 /\ Len(given) = 3
    /\ given[1][1] = "YUYV" /\ given[2][1] = "MJPG" /\ given[3][1] = "RGB3"
    /\ last.conv = "guess_image"
    /\ last.dims = <<U32(640), U32(480)>>

\* C16: in a V4l session every converter call reads a Vec<u8> of the
\* decode_next call's own, never the memory of the stream's buffers, and
\* between calls the session holds the stream, the format and the converter
\* and no buffer.
C16_ConverterReadsOwnCopy ==
    state.variant = "V4l" =>
        /\ Processed => last.src.owner = "decode_next"
        /\ DOMAIN state = {"variant", "stream", "format", "converter"}
        /\ DOMAIN state.stream = {"buffers", "delivered"}

\* a frame converted after the stream has handed out more buffers than it has
C16_Witness ==
    /\ state.variant = "V4l"
    /\ state.stream.delivered > state.stream.buffers
    /\ last.path = "decoded"
    /\ last.src = Owned(RawData(TRUE, FALSE))

Min(a, b) == IF a < b THEN a ELSE b

\* C18: in a TestImages session every decode_next call on a queue that is
\* not empty removes the front entry and no other, whether the call fails or
\* not; after i calls the queue is what follows the i-th entry, the i-th call
\* ends as the i-th entry makes it end and never with NotFound, and the calls
\* after the last entry return NotFound.
C18_FrontEntryConsumed ==
    /\ [](state.variant = "TestImages" =>
            /\ state.input_data =
                  SubSeq(given, Min(calls, Len(given)) + 1, Len(given))
            /\ (calls > 0 /\ calls <= Len(given)) =>
                  /\ ~IsNotFound(ret)
                  /\ last.path = EntryPath(given[calls])
            /\ calls > Len(given) => IsNotFound(ret))
    /\ [][(state.variant = "TestImages" /\ calls' = calls + 1
             /\ state.input_data # <<>>) =>
            /\ state'.input_data = Tail(state.input_data)
            /\ Len(state'.input_data) = Len(state.input_data) - 1]_vars

\* three entries, the first without a converter, the second failing in the
\* conversion, the third decoded by the third call
C18_Witness ==
    /\ state.variant = "TestImages"
    /\ Len(given) = 3 /\ calls = 3
    /\ EntryPath(given[1]) = "converter"
    /\ EntryPath(given[2]) = "conversion"
    /\ last.path = "decoded"
    /\ state.input_data = <<>>

\* C19: a V4l session holds the format set_format reported, and every
\* converter call gets the width and height of that format; a construction
\* in which set_format reports the chosen format code never fails with
\* InvalidInput, whatever width and height it reports.
C19_AppliedSizeUsed ==
    /\ state.variant = "V4l" =>
          /\ state.format = applied.val
          /\ Processed =>
                last.dims = <<applied.val.width, applied.val.height>>
    /\ (applied.kind = "Ok" /\ applied.val.fourcc = outcome.val[1]) =>
          ~(created.kind = "Err" /\ created.err = "InvalidInput")

\* 640x480 was chosen, the device reported 160x120, and a frame was converted
\* as 160x120
C19_Witness ==
    /\ state.variant = "V4l"
    /\ outcome.val[2] = U32(640) /\ outcome.val[3] = U32(480)
    /\ applied.val.width = U32(160) /\ applied.val.height = U32(120)
    /\ last.path = "decoded"
    /\ last.dims = <<U32(160), U32(120)>>

===========================================================================
